---------------------------- MODULE Spec2Model ----------------------------
(***************************************************************************)
(* Budget Grocery List (src/src/App.jsx): the state of the App component  *)
(* and its event handlers as a state machine.                              *)
(*                                                                         *)
(* Strings are sequences of one-character strings, so that trim,           *)
(* toLowerCase, parseFloat, encodeURIComponent and JSON text are computed  *)
(* character by character.  Money is counted in hundredths (Scale).  Time  *)
(* is counted in ticks of one second; the 3000 ms of the toast timeout are *)
(* ToastTicks ticks.                                                       *)
(***************************************************************************)
EXTENDS Integers, Sequences, FiniteSets, TLC

VARIABLES
    items,          \* useState([])      line 9: sequence of Item records
    inputValue,     \* useState('')      line 10
    budget,         \* useState('')      line 11
    showToast,      \* useState(false)   line 12
    toastMessage,   \* useState('')      line 13
    recipeUrl,      \* useState('')      line 14
    isImporting,    \* useState(false)   line 15
    timers,         \* pending setTimeout callbacks of line 116: ticks left, oldest first
    importPc,       \* where the async importRecipe stands: "idle", "fetch", "json"
    importClosure,  \* lower-cased names of the `items` the running importRecipe closed over
    apiKey,         \* GEMINI_API_KEY, line 5 (fixed at build time)
    clipboard,      \* text last written by navigator.clipboard.writeText
    copying,        \* texts of the writeText promises that have not settled yet
    mounted,        \* the App is rendered: no render has thrown (React unmounts the tree then)
    isListening,    \* useState(false)   line 16
    voiceSessions   \* SpeechRecognition objects that have not ended, oldest first

listVars   == <<items, inputValue, budget>>
toastVars  == <<showToast, toastMessage, timers>>
importVars == <<recipeUrl, isImporting, importPc, importClosure, apiKey>>
shareVars  == <<clipboard, copying>>
voiceVars  == <<isListening, voiceSessions>>
vars == <<items, inputValue, budget, showToast, toastMessage, recipeUrl,
          isImporting, timers, importPc, importClosure, apiKey, clipboard, copying,
          mounted, isListening, voiceSessions>>

-----------------------------------------------------------------------------
(* Bounds of the model *)
MaxItems == 3
MaxTimers == 2
MaxCopying == 1

(* setTimeout(..., 3000), in ticks of one second *)
ToastTicks == 3

(* fixed-point unit of money: 1.00 is Scale *)
Scale == 100

-----------------------------------------------------------------------------
(* String.prototype.trim / toLowerCase *)

IsSpace(c) == c = " "

RECURSIVE TrimStart(_)
TrimStart(s) ==
    IF s # <<>> /\ IsSpace(Head(s)) THEN TrimStart(Tail(s)) ELSE s

RECURSIVE TrimEnd(_)
TrimEnd(s) ==
    IF s # <<>> /\ IsSpace(s[Len(s)]) THEN TrimEnd(SubSeq(s, 1, Len(s) - 1)) ELSE s

TrimStartOnly(s) == TrimStart(s)

Trim(s) == TrimEnd(TrimStart(s))

UpperCase ==
    << "A", "B", "C", "D", "E", "F", "G", "H", "I", "J", "K", "L", "M",
       "N", "O", "P", "Q", "R", "S", "T", "U", "V", "W", "X", "Y", "Z" >>

LowerCase ==
    << "a", "b", "c", "d", "e", "f", "g", "h", "i", "j", "k", "l", "m",
       "n", "o", "p", "q", "r", "s", "t", "u", "v", "w", "x", "y", "z" >>

LowerChar(c) ==
    IF \E k \in 1..26 : UpperCase[k] = c
    THEN LowerCase[CHOOSE k \in 1..26 : UpperCase[k] = c]
    ELSE c

ToLowerCase(s) == [i \in 1..Len(s) |-> LowerChar(s[i])]

-----------------------------------------------------------------------------
(* parseFloat: optional white space, optional sign, digits, optional       *)
(* fraction; the longest such prefix is the number, none is NaN.  The      *)
(* exponent and Infinity forms are outside the inputs of the model, and a  *)
(* fraction is kept to the two digits of Scale.                            *)

Digits == {"0", "1", "2", "3", "4", "5", "6", "7", "8", "9"}

DigitVal(c) ==
    CASE c = "0" -> 0 [] c = "1" -> 1 [] c = "2" -> 2 [] c = "3" -> 3
      [] c = "4" -> 4 [] c = "5" -> 5 [] c = "6" -> 6 [] c = "7" -> 7
      [] c = "8" -> 8 [] c = "9" -> 9

RECURSIVE DigitsEnd(_, _)
DigitsEnd(s, i) ==
    IF i <= Len(s) /\ s[i] \in Digits THEN DigitsEnd(s, i + 1) ELSE i

RECURSIVE DigitsValue(_, _, _)
DigitsValue(s, i, j) ==
    IF j < i THEN 0 ELSE DigitsValue(s, i, j - 1) * 10 + DigitVal(s[j])

NaN == [nan |-> TRUE, v |-> 0]

ParseFloat(s) ==
    LET t  == TrimStart(s)
        n  == Len(t)
        neg == n >= 1 /\ t[1] = "-"
        i1 == IF n >= 1 /\ t[1] \in {"+", "-"} THEN 2 ELSE 1
        i2 == DigitsEnd(t, i1)
        hasDot == i2 <= n /\ t[i2] = "."
        i3 == IF hasDot THEN DigitsEnd(t, i2 + 1) ELSE i2
        nInt  == i2 - i1
        nFrac == IF hasDot THEN i3 - (i2 + 1) ELSE 0
        whole == DigitsValue(t, i1, i2 - 1)
        frac  == IF nFrac = 0 THEN 0
                 ELSE IF nFrac = 1 THEN DigitVal(t[i2 + 1]) * 10
                 ELSE DigitVal(t[i2 + 1]) * 10 + DigitVal(t[i2 + 2])
        mag == whole * Scale + frac
    IN  IF nInt + nFrac = 0 THEN NaN
        ELSE [nan |-> FALSE, v |-> IF neg THEN 0 - mag ELSE mag]

(* parseFloat(x) || 0 : NaN and 0 are falsy *)
OrZero(r) == IF r.nan THEN 0 ELSE r.v

-----------------------------------------------------------------------------
(* Derived values, lines 40-46 and 240 *)

ShoppingItems(its) == SelectSeq(its, LAMBDA it : ~it.inPantry)

RECURSIVE Reduce(_, _)
Reduce(its, sum) ==
    IF its = <<>> THEN sum
    ELSE Reduce(Tail(its), sum + OrZero(ParseFloat(Head(its).estimatedPrice)))

EstimatedTotalAll(its) == Reduce(its, 0)

EstimatedTotal(its) == Reduce(ShoppingItems(its), 0)

BudgetNum(b) == OrZero(ParseFloat(b))

IsOverBudget(its, b) == BudgetNum(b) > 0 /\ EstimatedTotal(its) > BudgetNum(b)

(* a percentage as the fraction n/d, d > 0 *)
ProgressUnclamped(its, b) ==
    IF BudgetNum(b) > 0
    THEN [n |-> EstimatedTotal(its) * 100, d |-> BudgetNum(b)]
    ELSE [n |-> 0, d |-> 1]

BudgetProgress(its, b) ==
    IF BudgetNum(b) > 0
    THEN IF EstimatedTotal(its) * 100 < 100 * BudgetNum(b)
         THEN [n |-> EstimatedTotal(its) * 100, d |-> BudgetNum(b)]
         ELSE [n |-> 100, d |-> 1]
    ELSE [n |-> 0, d |-> 1]

-----------------------------------------------------------------------------
(* Toast, lines 113-117 *)

NumStr(n) ==
    CASE n = 0 -> "0" [] n = 1 -> "1" [] n = 2 -> "2" [] n = 3 -> "3"
      [] n = 4 -> "4" [] n = 5 -> "5" [] OTHER -> "many"

MsgCleared == <<"List cleared!">>
MsgAdded(n) == <<"Added ", NumStr(n), IF n > 1 THEN " items" ELSE " item", "!">>
MsgFailed == <<"Failed to import recipe">>
MsgNoKey == <<"Add VITE_GEMINI_API_KEY to .env for recipe import">>
MsgShareCopied == <<"Share link copied to clipboard!">>
MsgSharedLoaded == <<"Shared list loaded!">>

(* a notification that schedules no hide *)
ShowNotificationNoTimeout(message) ==
    /\ toastMessage' = message
    /\ showToast' = TRUE
    /\ UNCHANGED timers

ShowNotification(message) ==
    /\ Len(timers) < MaxTimers
    /\ toastMessage' = message
    /\ showToast' = TRUE
    /\ timers' = Append(timers, ToastTicks)

(* one second passes; a timer that is due fires before any more time passes *)
Tick ==
    /\ timers # <<>>
    /\ \A i \in 1..Len(timers) : timers[i] > 0
    /\ timers' = [i \in 1..Len(timers) |-> timers[i] - 1]
    /\ UNCHANGED <<showToast, toastMessage>>
    /\ UNCHANGED <<listVars, importVars, shareVars, mounted, voiceVars>>

(* the callback of line 116: () => setShowToast(false) *)
TimerFire ==
    /\ timers # <<>>
    /\ Head(timers) = 0
    /\ showToast' = FALSE
    /\ timers' = Tail(timers)
    /\ UNCHANGED toastMessage
    /\ UNCHANGED <<listVars, importVars, shareVars, mounted, voiceVars>>

-----------------------------------------------------------------------------
(* List manager, lines 65-110 and 145-149 *)

NewItem(name) == [name |-> name, inPantry |-> FALSE, estimatedPrice |-> <<>>]

NameTakenExact(its, name) ==
    \E i \in 1..Len(its) : its[i].name = name

(* items.find(i => i.name.toLowerCase() === name.toLowerCase()) *)
NameTaken(its, name) ==
    \E i \in 1..Len(its) : ToLowerCase(its[i].name) = ToLowerCase(name)

(* what the user may type into the item input *)
NameInputs ==
    { <<>>, <<" ">>, <<"a">>, <<" ", "A", " ">>, <<"b">> }

SetInputValue(v) ==
    /\ inputValue' = v
    /\ UNCHANGED <<items, budget>>
    /\ UNCHANGED <<toastVars, importVars, shareVars, mounted, voiceVars>>

(* addItem() from the button or the Enter key: itemName is inputValue *)
AddItem ==
    LET trimmed == Trim(inputValue) IN
    /\ IF trimmed # <<>> /\ ~NameTaken(items, trimmed)
       THEN /\ Len(items) < MaxItems
            /\ items' = Append(items, NewItem(trimmed))
            /\ inputValue' = <<>>
       ELSE UNCHANGED <<items, inputValue>>
    /\ UNCHANGED budget
    /\ UNCHANGED <<toastVars, importVars, shareVars, mounted, voiceVars>>

(* a removal that takes the last item when the index is behind the list *)
RemoveClamped(its, index) ==
    IF its = <<>> THEN its
    ELSE LET at == IF index > Len(its) THEN Len(its) ELSE index
         IN  [i \in 1..(Len(its) - 1) |-> IF i < at THEN its[i] ELSE its[i + 1]]

(* prev.filter((_, i) => i !== index): an index outside the list keeps all *)
RemoveAt(its, index) ==
    IF index \in 1..Len(its)
    THEN [i \in 1..(Len(its) - 1) |-> IF i < index THEN its[i] ELSE its[i + 1]]
    ELSE its

(* removeItem never looks at the list: a stale index is accepted *)
RemoveItem(index) ==
    /\ items' = RemoveAt(items, index)
    /\ UNCHANGED <<inputValue, budget>>
    /\ UNCHANGED <<toastVars, importVars, shareVars, mounted, voiceVars>>

SetPantryAt(its, index) ==
    [i \in 1..Len(its) |->
        IF i = index THEN [its[i] EXCEPT !.inPantry = TRUE] ELSE its[i]]

TogglePantryAt(its, index) ==
    [i \in 1..Len(its) |->
        IF i = index THEN [its[i] EXCEPT !.inPantry = ~its[i].inPantry] ELSE its[i]]

TogglePantry(index) ==
    /\ index \in 1..Len(items)
    /\ items' = TogglePantryAt(items, index)
    /\ UNCHANGED <<inputValue, budget>>
    /\ UNCHANGED <<toastVars, importVars, shareVars, mounted, voiceVars>>

(* what the user may type into a price input or the budget input *)
PriceInputs == { <<>>, <<"x">>, <<"2", ".", "5">>, <<"-", "1">> }
BudgetInputs == { <<>>, <<"0">>, <<"2">>, <<"4">> }

UpdatePrice(index, price) ==
    /\ index \in 1..Len(items)
    /\ items' = [i \in 1..Len(items) |->
                    IF i = index THEN [items[i] EXCEPT !.estimatedPrice = price]
                    ELSE items[i]]
    /\ UNCHANGED <<inputValue, budget>>
    /\ UNCHANGED <<toastVars, importVars, shareVars, mounted, voiceVars>>

(* onChange of the budget input, line 264 *)
SetBudget(v) ==
    /\ budget' = v
    /\ UNCHANGED <<items, inputValue>>
    /\ UNCHANGED <<toastVars, importVars, shareVars, mounted, voiceVars>>

(* the Clear List button is rendered only while shoppingItems is non-empty *)
ClearAll ==
    /\ ShoppingItems(items) # <<>>
    /\ items' = <<>>
    /\ ShowNotification(MsgCleared)
    /\ UNCHANGED <<inputValue, budget>>
    /\ UNCHANGED <<importVars, shareVars, mounted, voiceVars>>

-----------------------------------------------------------------------------
(* The list manager with the budget tracker and the toast *)

Init ==
    /\ items = <<>>
    /\ inputValue = <<>>
    /\ budget = <<>>
    /\ showToast = FALSE
    /\ toastMessage = <<>>
    /\ recipeUrl = <<>>
    /\ isImporting = FALSE
    /\ timers = <<>>
    /\ importPc = "idle"
    /\ importClosure = {}
    /\ apiKey = <<>>
    /\ clipboard = <<>>
    /\ copying = <<>>
    /\ mounted = TRUE
    /\ isListening = FALSE
    /\ voiceSessions = <<>>

Next ==
    \/ \E v \in NameInputs : SetInputValue(v)
    \/ AddItem
    \/ \E i \in 1..MaxItems : RemoveItem(i)
    \/ \E i \in 1..MaxItems : TogglePantry(i)
    \/ \E i \in 1..MaxItems : \E p \in PriceInputs : UpdatePrice(i, p)
    \/ \E v \in BudgetInputs : SetBudget(v)
    \/ ClearAll
    \/ Tick
    \/ TimerFire

Spec == Init /\ [][Next]_vars

-----------------------------------------------------------------------------
(* Batch add, lines 74-84.  `known` is what the duplicate test of line 77  *)
(* reads of the `items` binding of the render the caller was created in:   *)
(* the lower-cased names.  The append of line 81 is on the current list.   *)

ClosureOf(its) == { ToLowerCase(its[i].name) : i \in 1..Len(its) }

TrimAll(itemNames) == [i \in 1..Len(itemNames) |-> Trim(itemNames[i])]

Survivors(known, itemNames) ==
    SelectSeq(TrimAll(itemNames),
              LAMBDA name : name # <<>> /\ ToLowerCase(name) \notin known)

NewItems(known, itemNames) ==
    LET names == Survivors(known, itemNames)
    IN  [i \in 1..Len(names) |-> NewItem(names[i])]

AddMultipleItems(known, itemNames) ==
    LET newItems == NewItems(known, itemNames) IN
    IF Len(newItems) > 0
    THEN /\ Len(items) + Len(newItems) <= MaxItems
         /\ items' = items \o newItems
         /\ ShowNotification(MsgAdded(Len(newItems)))
    ELSE UNCHANGED <<items, toastVars>>

-----------------------------------------------------------------------------
(* JSON.parse over characters.  A value is [kind, chars, elems]: kind is   *)
(* "string", "number", "true", "false", "null", "array" or "object"; an    *)
(* object's elems are fields [kind |-> "field", chars |-> key, elems |->   *)
(* <<value>>].  White space is the space; the escapes are \" \\ and \/;    *)
(* numbers are digits with an optional sign and fraction: the texts of     *)
(* the model use no more of the grammar.                                   *)

Q == "\""
BackSlash == "\\"

(* the first position of c in s at or after i, the last at or before i; 0 for none *)
FirstIndex(s, c, i) ==
    LET at == { k \in i..Len(s) : s[k] = c }
    IN  IF at = {} THEN 0 ELSE CHOOSE k \in at : \A m \in at : k <= m

LastIndex(s, c, i) ==
    LET at == { k \in 1..i : s[k] = c }
    IN  IF at = {} THEN 0 ELSE CHOOSE k \in at : \A m \in at : k >= m

RECURSIVE SkipWs(_, _)
SkipWs(s, i) ==
    IF i <= Len(s) /\ s[i] = " " THEN SkipWs(s, i + 1) ELSE i

HasPrefixAt(s, i, lit) ==
    /\ i + Len(lit) - 1 <= Len(s)
    /\ SubSeq(s, i, i + Len(lit) - 1) = lit

JsonValue(kind, chars, elems) == [kind |-> kind, chars |-> chars, elems |-> elems]

SyntaxError == [ok |-> FALSE, value |-> JsonValue("null", <<>>, <<>>), next |-> 0]

Parsed(value, next) == [ok |-> TRUE, value |-> value, next |-> next]

(* the characters of a string up to its closing quote; i is behind the opening one *)
RECURSIVE ParseStringBody(_, _, _)
ParseStringBody(s, i, acc) ==
    IF i > Len(s) THEN SyntaxError
    ELSE IF s[i] = Q THEN Parsed(JsonValue("string", acc, <<>>), i + 1)
    ELSE IF s[i] = BackSlash
         THEN IF i + 1 <= Len(s) /\ s[i + 1] \in {Q, BackSlash, "/"}
              THEN ParseStringBody(s, i + 2, Append(acc, s[i + 1]))
              ELSE SyntaxError
    ELSE ParseStringBody(s, i + 1, Append(acc, s[i]))

ParseNumber(s, i) ==
    LET i1 == IF s[i] = "-" THEN i + 1 ELSE i
        i2 == DigitsEnd(s, i1)
        i3 == IF i2 + 1 <= Len(s) /\ s[i2] = "." /\ s[i2 + 1] \in Digits
              THEN DigitsEnd(s, i2 + 1) ELSE i2
    IN  IF i2 = i1 THEN SyntaxError
        ELSE Parsed(JsonValue("number", SubSeq(s, i, i3 - 1), <<>>), i3)

RECURSIVE ParseValue(_, _)
RECURSIVE ParseArrayElems(_, _, _)
RECURSIVE ParseObjectFields(_, _, _)

ParseValue(s, i) ==
    LET i1 == SkipWs(s, i) IN
    IF i1 > Len(s) THEN SyntaxError
    ELSE IF s[i1] = Q THEN ParseStringBody(s, i1 + 1, <<>>)
    ELSE IF s[i1] = "["
         THEN LET j == SkipWs(s, i1 + 1) IN
              IF j <= Len(s) /\ s[j] = "]"
              THEN Parsed(JsonValue("array", <<>>, <<>>), j + 1)
              ELSE ParseArrayElems(s, i1 + 1, <<>>)
    ELSE IF s[i1] = "{"
         THEN LET j == SkipWs(s, i1 + 1) IN
              IF j <= Len(s) /\ s[j] = "}"
              THEN Parsed(JsonValue("object", <<>>, <<>>), j + 1)
              ELSE ParseObjectFields(s, i1 + 1, <<>>)
    ELSE IF s[i1] \in Digits \cup {"-"} THEN ParseNumber(s, i1)
    ELSE IF HasPrefixAt(s, i1, <<"t", "r", "u", "e">>)
         THEN Parsed(JsonValue("true", <<>>, <<>>), i1 + 4)
    ELSE IF HasPrefixAt(s, i1, <<"f", "a", "l", "s", "e">>)
         THEN Parsed(JsonValue("false", <<>>, <<>>), i1 + 5)
    ELSE IF HasPrefixAt(s, i1, <<"n", "u", "l", "l">>)
         THEN Parsed(JsonValue("null", <<>>, <<>>), i1 + 4)
    ELSE SyntaxError

ParseArrayElems(s, i, acc) ==
    LET r == ParseValue(s, i) IN
    IF ~r.ok THEN SyntaxError
    ELSE LET j == SkipWs(s, r.next) IN
         IF j > Len(s) THEN SyntaxError
         ELSE IF s[j] = "," THEN ParseArrayElems(s, j + 1, Append(acc, r.value))
         ELSE IF s[j] = "]"
              THEN Parsed(JsonValue("array", <<>>, Append(acc, r.value)), j + 1)
         ELSE SyntaxError

ParseObjectFields(s, i, acc) ==
    LET k == SkipWs(s, i) IN
    IF k > Len(s) \/ s[k] # Q THEN SyntaxError
    ELSE LET key == ParseStringBody(s, k + 1, <<>>) IN
         IF ~key.ok THEN SyntaxError
         ELSE LET c == SkipWs(s, key.next) IN
              IF c > Len(s) \/ s[c] # ":" THEN SyntaxError
              ELSE LET r == ParseValue(s, c + 1) IN
                   IF ~r.ok THEN SyntaxError
                   ELSE LET j == SkipWs(s, r.next)
                            field == JsonValue("field", key.value.chars, <<r.value>>)
                        IN  IF j > Len(s) THEN SyntaxError
                            ELSE IF s[j] = ","
                                 THEN ParseObjectFields(s, j + 1, Append(acc, field))
                            ELSE IF s[j] = "}"
                                 THEN Parsed(JsonValue("object", <<>>, Append(acc, field)), j + 1)
                            ELSE SyntaxError

JSONParse(s) ==
    LET r == ParseValue(s, 1) IN
    IF r.ok /\ SkipWs(s, r.next) > Len(s) THEN r ELSE SyntaxError

(* text.match(/\[[\s\S]*\]/), line 186: the greedy match, from the first   *)
(* "[" to the last "]" behind it                                           *)
MatchArray(text) ==
    LET first == FirstIndex(text, "[", 1)
        last  == LastIndex(text, "]", Len(text))
    IN  IF first > 0 /\ last > first
        THEN [found |-> TRUE, text |-> SubSeq(text, first, last)]
        ELSE [found |-> FALSE, text |-> <<>>]

-----------------------------------------------------------------------------
(* Recipe import, lines 161-202 *)

UrlInputs == { <<>>, <<" ">>, <<"u">> }
ApiKeys == { <<>>, <<"k">> }

(* data.candidates?.[0]?.content?.parts?.[0]?.text || '' *)
ResponseTexts ==
    { <<>>,
      <<"n", "o">>,
      <<"]", "[">>,
      <<"[", "]">>,
      <<"[", Q, "a", Q, "]">>,
      <<"[", Q, "a", Q, ",", Q, "A", Q, "]">>,
      <<"o", "k", " ", "[", Q, " ", "b", Q, "]">>,
      <<"[", "1", "]">>,
      <<"[", "a", "]">> }

SetRecipeUrl(v) ==
    /\ recipeUrl' = v
    /\ UNCHANGED <<isImporting, importPc, importClosure, apiKey>>
    /\ UNCHANGED <<listVars, toastVars, shareVars, mounted, voiceVars>>

(* the catch block, lines 195-197 *)
Catch ==
    /\ ShowNotification(MsgFailed)
    /\ UNCHANGED items

FinallySkipped ==
    /\ isImporting' = isImporting
    /\ recipeUrl' = recipeUrl

(* the finally block, lines 198-201 *)
Finally ==
    /\ isImporting' = FALSE
    /\ recipeUrl' = <<>>

(* importRecipe behind a button that is never disabled *)
ImportRecipeNeverDisabled ==
    /\ IF Trim(recipeUrl) = <<>>
       THEN UNCHANGED <<recipeUrl, isImporting, importPc, importClosure, toastVars>>
       ELSE IF apiKey # <<>>
            THEN /\ isImporting' = TRUE
                 /\ importPc' = "fetch"
                 /\ importClosure' = ClosureOf(items)
                 /\ UNCHANGED <<recipeUrl, toastVars>>
            ELSE /\ toastMessage' = MsgNoKey
                 /\ showToast' = TRUE
                 /\ timers' = Append(timers, ToastTicks)
                 /\ isImporting' = FALSE
                 /\ recipeUrl' = <<>>
                 /\ UNCHANGED <<importPc, importClosure>>
    /\ UNCHANGED <<listVars, apiKey, shareVars, mounted, voiceVars>>

(* importRecipe without the test of line 168: the request is sent anyway *)
ImportRecipeNoKeyTest ==
    /\ ~isImporting
    /\ IF Trim(recipeUrl) = <<>>
       THEN UNCHANGED <<recipeUrl, isImporting, importPc, importClosure, toastVars>>
       ELSE /\ isImporting' = TRUE
            /\ importPc' = "fetch"
            /\ importClosure' = ClosureOf(items)
            /\ UNCHANGED <<recipeUrl, toastVars>>
    /\ UNCHANGED <<listVars, apiKey, shareVars, mounted, voiceVars>>

(* a click on Import (disabled while isImporting), up to the first await *)
ImportRecipe ==
    /\ ~isImporting
    /\ IF Trim(recipeUrl) = <<>>
       THEN UNCHANGED <<recipeUrl, isImporting, importPc, importClosure, toastVars>>
       ELSE IF apiKey # <<>>
            THEN /\ isImporting' = TRUE
                 /\ importPc' = "fetch"
                 /\ importClosure' = ClosureOf(items)
                 /\ UNCHANGED <<recipeUrl, toastVars>>
            ELSE /\ ShowNotification(MsgNoKey)
                 /\ Finally
                 /\ UNCHANGED <<importPc, importClosure>>
    /\ UNCHANGED <<listVars, apiKey, shareVars, mounted, voiceVars>>

(* await fetch(...) rejects: a network error *)
FetchReject ==
    /\ importPc = "fetch"
    /\ Catch
    /\ Finally
    /\ importPc' = "idle"
    /\ importClosure' = {}
    /\ UNCHANGED <<inputValue, budget, apiKey, shareVars, mounted, voiceVars>>

(* await fetch(...) resolves; response.json() is awaited next *)
FetchResolve ==
    /\ importPc = "fetch"
    /\ importPc' = "json"
    /\ UNCHANGED <<recipeUrl, isImporting, importClosure, apiKey>>
    /\ UNCHANGED <<listVars, toastVars, shareVars, mounted, voiceVars>>

(* await response.json() rejects: the body is not JSON *)
JsonReject ==
    /\ importPc = "json"
    /\ Catch
    /\ Finally
    /\ importPc' = "idle"
    /\ importClosure' = {}
    /\ UNCHANGED <<inputValue, budget, apiKey, shareVars, mounted, voiceVars>>

(* await response.json() resolves with a reply whose text is `text` *)
JsonResolve(text) ==
    /\ importPc = "json"
    /\ LET jsonMatch == MatchArray(text) IN
       IF ~jsonMatch.found THEN UNCHANGED <<items, toastVars>>
       ELSE LET ingredients == JSONParse(jsonMatch.text) IN
            IF ~ingredients.ok THEN Catch
            ELSE IF \E i \in 1..Len(ingredients.value.elems) :
                        ingredients.value.elems[i].kind # "string"
                 THEN Catch   \* name.trim is not a function, line 76
            ELSE AddMultipleItems(importClosure,
                     [i \in 1..Len(ingredients.value.elems) |->
                         ingredients.value.elems[i].chars])
    /\ Finally
    /\ importPc' = "idle"
    /\ importClosure' = {}
    /\ UNCHANGED <<inputValue, budget, apiKey, shareVars, mounted, voiceVars>>

FetchSettle == FetchReject \/ FetchResolve
JsonSettle == JsonReject \/ \E text \in ResponseTexts : JsonResolve(text)

InitImport ==
    /\ items = <<>>
    /\ inputValue = <<>>
    /\ budget = <<>>
    /\ showToast = FALSE
    /\ toastMessage = <<>>
    /\ recipeUrl = <<>>
    /\ isImporting = FALSE
    /\ timers = <<>>
    /\ importPc = "idle"
    /\ importClosure = {}
    /\ apiKey \in ApiKeys
    /\ clipboard = <<>>
    /\ copying = <<>>
    /\ mounted = TRUE
    /\ isListening = FALSE
    /\ voiceSessions = <<>>

(* the import beside the list manager: what the user may do to the list   *)
(* while a request is in flight.  The pantry flag is left out: the batch   *)
(* add reads the names only.                                               *)
NextImport ==
    \/ \E v \in UrlInputs : SetRecipeUrl(v)
    \/ ImportRecipe
    \/ FetchReject
    \/ FetchResolve
    \/ JsonReject
    \/ \E text \in ResponseTexts : JsonResolve(text)
    \/ \E v \in {<<"a">>, <<"b">>} : SetInputValue(v)
    \/ AddItem
    \/ \E i \in 1..MaxItems : RemoveItem(i)
    \/ ClearAll
    \/ Tick
    \/ TimerFire

SpecImport == InitImport /\ [][NextImport]_vars

(* the import alone: its inputs, its outcomes, the list cleared in between *)
NextImportFlow ==
    \/ \E v \in UrlInputs : SetRecipeUrl(v)
    \/ ImportRecipe
    \/ FetchReject
    \/ FetchResolve
    \/ JsonReject
    \/ \E text \in ResponseTexts : JsonResolve(text)
    \/ ClearAll
    \/ Tick
    \/ TimerFire

(* a pending network call resolves or rejects in the end *)
SpecImportFlow ==
    /\ InitImport
    /\ [][NextImportFlow]_vars
    /\ WF_vars(FetchSettle)
    /\ WF_vars(JsonSettle)

-----------------------------------------------------------------------------
(* Share codec, lines 20-37 and 152-158 *)

(* the concatenation of the sequences of ss *)
RECURSIVE Flatten(_)
Flatten(ss) ==
    IF ss = <<>> THEN <<>>
    ELSE IF Len(ss) = 1 THEN ss[1]
    ELSE LET h == Len(ss) \div 2
         IN  Flatten(SubSeq(ss, 1, h)) \o Flatten(SubSeq(ss, h + 1, Len(ss)))

(* JSON.stringify of a string: quoted, with " and \ escaped *)
JsonString(s) ==
    <<Q>> \o Flatten([i \in 1..Len(s) |->
                IF s[i] \in {Q, BackSlash} THEN <<BackSlash, s[i]>> ELSE <<s[i]>>])
          \o <<Q>>

(* JSON.stringify of one Item: the keys in the order line 68 creates them *)
JsonItem(it) ==
    <<"{", Q, "n", "a", "m", "e", Q, ":">> \o JsonString(it.name)
    \o <<",", Q, "i", "n", "P", "a", "n", "t", "r", "y", Q, ":">>
    \o (IF it.inPantry THEN <<"t", "r", "u", "e">> ELSE <<"f", "a", "l", "s", "e">>)
    \o <<",", Q, "e", "s", "t", "i", "m", "a", "t", "e", "d",
         "P", "r", "i", "c", "e", Q, ":">> \o JsonString(it.estimatedPrice)
    \o <<"}">>

JSONStringify(its) ==
    <<"[">> \o Flatten([i \in 1..Len(its) |->
                 (IF i > 1 THEN <<",">> ELSE <<>>) \o JsonItem(its[i])])
            \o <<"]">>

Letters ==
    { "a", "b", "c", "d", "e", "f", "g", "h", "i", "j", "k", "l", "m", "n", "o",
      "p", "q", "r", "s", "t", "u", "v", "w", "x", "y", "z",
      "A", "B", "C", "D", "E", "F", "G", "H", "I", "J", "K", "L", "M", "N", "O",
      "P", "Q", "R", "S", "T", "U", "V", "W", "X", "Y", "Z" }

(* the characters encodeURIComponent leaves alone *)
Unreserved == Letters \cup Digits \cup {"-", "_", ".", "!", "~", "*", "'", "(", ")"}

HexDigits == Digits \cup {"a", "b", "c", "d", "e", "f", "A", "B", "C", "D", "E", "F"}

(* the ASCII code, in hexadecimal, of the other characters of the model *)
PctCode(c) ==
    CASE c = " " -> <<"2", "0">>
      [] c = Q   -> <<"2", "2">>
      [] c = "#" -> <<"2", "3">>
      [] c = "%" -> <<"2", "5">>
      [] c = "&" -> <<"2", "6">>
      [] c = "+" -> <<"2", "B">>
      [] c = "," -> <<"2", "C">>
      [] c = "/" -> <<"2", "F">>
      [] c = ":" -> <<"3", "A">>
      [] c = "=" -> <<"3", "D">>
      [] c = "?" -> <<"3", "F">>
      [] c = "[" -> <<"5", "B">>
      [] c = BackSlash -> <<"5", "C">>
      [] c = "]" -> <<"5", "D">>
      [] c = "{" -> <<"7", "B">>
      [] c = "}" -> <<"7", "D">>

Coded == {" ", Q, "#", "%", "&", "+", ",", "/", ":", "=", "?", "[", BackSlash, "]", "{", "}"}

(* the character of a two-digit code; "R" and "U" are the codes 52 and 55 *)
PctChar(h1, h2) ==
    IF \E c \in Coded : PctCode(c) = <<h1, h2>>
    THEN CHOOSE c \in Coded : PctCode(c) = <<h1, h2>>
    ELSE IF <<h1, h2>> = <<"5", "2">> THEN "R"
    ELSE IF <<h1, h2>> = <<"5", "5">> THEN "U"
    ELSE "?"

EncodeURIComponent(s) ==
    Flatten([i \in 1..Len(s) |->
        IF s[i] \in Unreserved THEN <<s[i]>> ELSE <<"%">> \o PctCode(s[i])])

IsEscapeAt(s, i) ==
    /\ i + 2 <= Len(s)
    /\ s[i] = "%"
    /\ s[i + 1] \in HexDigits
    /\ s[i + 2] \in HexDigits

URIError == [ok |-> FALSE, text |-> <<>>]

(* the two digits behind the "%" of an escape are never a "%": position i  *)
(* belongs to the escape that starts one or two places before it           *)
InEscape(s, i) ==
    \/ i >= 2 /\ IsEscapeAt(s, i - 1)
    \/ i >= 3 /\ IsEscapeAt(s, i - 2)

(* decodeURIComponent: a "%" that does not start an escape is an error *)
DecodeURIComponent(s) ==
    IF \E i \in 1..Len(s) : s[i] = "%" /\ ~IsEscapeAt(s, i)
    THEN URIError
    ELSE [ok |-> TRUE,
          text |-> Flatten([i \in 1..Len(s) |->
                      IF IsEscapeAt(s, i) THEN <<PctChar(s[i + 1], s[i + 2])>>
                      ELSE IF InEscape(s, i) THEN <<>>
                      ELSE <<s[i]>>])]

(* the decoding of URLSearchParams: "+" is a space, and a "%" that does    *)
(* not start an escape stays                                               *)
FormDecode(s) ==
    Flatten([i \in 1..Len(s) |->
        IF IsEscapeAt(s, i) THEN <<PctChar(s[i + 1], s[i + 2])>>
        ELSE IF InEscape(s, i) THEN <<>>
        ELSE IF s[i] = "+" THEN <<" ">>
        ELSE <<s[i]>>])

(* s split at every c *)
RECURSIVE Split(_, _)
Split(s, c) ==
    LET k == FirstIndex(s, c, 1) IN
    IF k = 0 THEN <<s>>
    ELSE <<SubSeq(s, 1, k - 1)>> \o Split(SubSeq(s, k + 1, Len(s)), c)

(* window.location.search: from the first "?" up to the fragment *)
LocationSearch(url) ==
    LET h == FirstIndex(url, "#", 1)
        noFragment == IF h = 0 THEN url ELSE SubSeq(url, 1, h - 1)
        q == FirstIndex(noFragment, "?", 1)
    IN  IF q = 0 THEN <<>> ELSE SubSeq(noFragment, q, Len(noFragment))

(* new URLSearchParams(search): the name/value pairs, decoded *)
URLSearchParams(search) ==
    LET body == IF search # <<>> /\ Head(search) = "?" THEN Tail(search) ELSE search
        parts == SelectSeq(Split(body, "&"), LAMBDA part : part # <<>>)
    IN  [i \in 1..Len(parts) |->
            LET e == FirstIndex(parts[i], "=", 1) IN
            IF e = 0 THEN [name |-> FormDecode(parts[i]), value |-> <<>>]
            ELSE [name  |-> FormDecode(SubSeq(parts[i], 1, e - 1)),
                  value |-> FormDecode(SubSeq(parts[i], e + 1, Len(parts[i])))]]

(* params.get(name): the first value of that name, or null *)
ParamsGet(params, name) ==
    LET hits == SelectSeq(params, LAMBDA pr : pr.name = name)
    IN  IF hits = <<>> THEN [null |-> TRUE, value |-> <<>>]
        ELSE [null |-> FALSE, value |-> hits[1].value]

(* window.location.origin + window.location.pathname *)
PageBase == <<"h", ":", "/", "/", "x", "/">>

(* shareUrl, lines 153-154 *)
ShareUrl(its, b) ==
    PageBase \o <<"?", "i", "t", "e", "m", "s", "=">>
             \o EncodeURIComponent(JSONStringify(its))
             \o (IF b # <<>>
                 THEN <<"&", "b", "u", "d", "g", "e", "t", "=">> \o b
                 ELSE <<>>)

FieldIs(f, key, kinds) ==
    /\ f.kind = "field"
    /\ f.chars = key
    /\ f.elems[1].kind \in kinds

IsItemJson(v) ==
    /\ v.kind = "object"
    /\ Len(v.elems) = 3
    /\ FieldIs(v.elems[1], <<"n", "a", "m", "e">>, {"string"})
    /\ FieldIs(v.elems[2], <<"i", "n", "P", "a", "n", "t", "r", "y">>, {"true", "false"})
    /\ FieldIs(v.elems[3], <<"e", "s", "t", "i", "m", "a", "t", "e", "d",
                             "P", "r", "i", "c", "e">>, {"string"})

(* the value setItems(parsed) stores: an array of Item objects as the      *)
(* sequence of Item records, any other JSON value as it was parsed         *)
StateOfJson(v) ==
    IF v.kind = "array" /\ \A i \in 1..Len(v.elems) : IsItemJson(v.elems[i])
    THEN [i \in 1..Len(v.elems) |->
            [name |-> v.elems[i].elems[1].elems[1].chars,
             inPantry |-> v.elems[i].elems[2].elems[1].kind = "true",
             estimatedPrice |-> v.elems[i].elems[3].elems[1].chars]]
    ELSE v

(* the render that follows setItems(parsed), lines 40-42: `items.filter`   *)
(* is not a function unless the value is an array, and `item.inPantry`     *)
(* throws on a null element.  An element that is neither an Item object    *)
(* nor null (a number, an object without the three properties) would       *)
(* render with undefined properties; the payloads of the model hold none.  *)
RenderThrows(v) ==
    \/ v.kind # "array"
    \/ \E i \in 1..Len(v.elems) : ~IsItemJson(v.elems[i])

(* the effect of lines 20-37 on a page opened at `url`: what it loads, and *)
(* whether the render of what it loaded throws                             *)
Restore(url) ==
    LET params == URLSearchParams(LocationSearch(url))
        sharedItems == ParamsGet(params, <<"i", "t", "e", "m", "s">>)
        sharedBudget == ParamsGet(params, <<"b", "u", "d", "g", "e", "t">>)
        decoded == DecodeURIComponent(sharedItems.value)
        parsed == JSONParse(decoded.text)
        loaded == ~sharedItems.null /\ sharedItems.value # <<>> /\ decoded.ok /\ parsed.ok
        throws == loaded /\ RenderThrows(parsed.value)
    IN  [loaded |-> loaded,
         throws |-> throws,
         items  |-> IF loaded /\ ~throws THEN StateOfJson(parsed.value) ELSE <<>>,
         budget |-> IF ~sharedBudget.null /\ sharedBudget.value # <<>>
                    THEN sharedBudget.value ELSE <<>>]

(* the Share List button, rendered while shoppingItems is non-empty:       *)
(* writeText is started, its promise is pending                            *)
ShareList ==
    /\ ShoppingItems(items) # <<>>
    /\ Len(copying) < MaxCopying
    /\ copying' = Append(copying, ShareUrl(items, budget))
    /\ UNCHANGED clipboard
    /\ UNCHANGED <<listVars, toastVars, importVars, mounted, voiceVars>>

(* the write succeeds: the then-callback of line 155 runs *)
CopyResolve ==
    /\ copying # <<>>
    /\ clipboard' = Head(copying)
    /\ copying' = Tail(copying)
    /\ ShowNotification(MsgShareCopied)
    /\ UNCHANGED <<listVars, importVars, mounted, voiceVars>>

(* the write is refused: the promise rejects and nothing handles it *)
CopyReject ==
    /\ copying # <<>>
    /\ copying' = Tail(copying)
    /\ UNCHANGED clipboard
    /\ UNCHANGED <<listVars, toastVars, importVars, mounted, voiceVars>>

(* the page is opened at `url`: a fresh App is mounted with the initial    *)
(* state of lines 9-17 and the effect of lines 20-37 runs.  When the       *)
(* render of the loaded value throws, React removes the whole tree: no     *)
(* state is left and no handler can run.                                   *)
OpenUrl(url) ==
    /\ LET r == Restore(url) IN
       /\ mounted' = ~r.throws
       /\ items' = r.items
       /\ budget' = IF r.throws THEN <<>> ELSE r.budget
       /\ IF r.loaded /\ ~r.throws
          THEN /\ toastMessage' = MsgSharedLoaded
               /\ showToast' = TRUE
               /\ timers' = <<ToastTicks>>
          ELSE /\ toastMessage' = <<>>
               /\ showToast' = FALSE
               /\ timers' = <<>>
    /\ inputValue' = <<>>
    /\ recipeUrl' = <<>>
    /\ isImporting' = FALSE
    /\ importPc' = "idle"
    /\ importClosure' = {}
    /\ copying' = <<>>
    /\ isListening' = FALSE
    /\ voiceSessions' = <<>>
    /\ UNCHANGED <<apiKey, clipboard>>

(* the copied link is opened *)
OpenSharedLink ==
    /\ clipboard # <<>>
    /\ OpenUrl(clipboard)

(* The share codec on its own: a list and a budget the list manager can    *)
(* hold (names trimmed, non-empty and unique), shared and opened           *)
ShareNames == { <<"m">>, <<"m", "&", "+">>, <<"5", "%">> }
SharePrices == { <<>>, <<"2", ".", "5">> }
ShareBudgetInputs == { <<>>, <<"5">>, <<"1", "e", "+", "5">> }

ShareItems ==
    { [name |-> n, inPantry |-> p, estimatedPrice |-> pr] :
        n \in ShareNames, p \in BOOLEAN, pr \in SharePrices }

ShareLists ==
    { <<a>> : a \in ShareItems }
    \cup { ab \in { <<a, b>> : a \in ShareItems, b \in ShareItems } :
                ab[1].name # ab[2].name }

InitShare ==
    /\ items \in ShareLists
    /\ inputValue = <<>>
    /\ budget \in ShareBudgetInputs
    /\ showToast = FALSE
    /\ toastMessage = <<>>
    /\ recipeUrl = <<>>
    /\ isImporting = FALSE
    /\ timers = <<>>
    /\ importPc = "idle"
    /\ importClosure = {}
    /\ apiKey = <<>>
    /\ clipboard = <<>>
    /\ copying = <<>>
    /\ mounted = TRUE
    /\ isListening = FALSE
    /\ voiceSessions = <<>>

NextShare ==
    \/ ShareList
    \/ CopyResolve
    \/ CopyReject
    \/ OpenSharedLink
    \/ Tick
    \/ TimerFire

SpecShare == InitShare /\ [][NextShare]_vars

-----------------------------------------------------------------------------
(* The page opened at a URL somebody typed or mangled: the query text      *)
(* behind "items=" as it stands in the address bar                         *)

PayloadBadEscape == <<"%">>
PayloadNotJson   == <<"x">>
PayloadNumber    == <<"5">>
PayloadNull      == <<"n", "u", "l", "l">>
PayloadObject    == <<"%", "7", "B", "%", "7", "D">>
PayloadNullElem  == <<"%", "5", "B", "n", "u", "l", "l", "%", "5", "D">>
PayloadOneItem   == EncodeURIComponent(JSONStringify(<<NewItem(<<"a">>)>>))

LoadPayloads ==
    { PayloadBadEscape, PayloadNotJson, PayloadNumber, PayloadNull,
      PayloadObject, PayloadNullElem, PayloadOneItem }

UrlOfPayload(payload) ==
    PageBase \o <<"?", "i", "t", "e", "m", "s", "=">> \o payload
             \o <<"&", "b", "u", "d", "g", "e", "t", "=", "2">>

LoadUrls == { PageBase } \cup { UrlOfPayload(payload) : payload \in LoadPayloads }

(* the handlers exist only while the App is rendered *)
NextLoad ==
    \/ \E url \in LoadUrls : OpenUrl(url)
    \/ mounted /\ \E v \in NameInputs : SetInputValue(v)
    \/ mounted /\ AddItem
    \/ mounted /\ \E i \in 1..MaxItems : \E p \in PriceInputs : UpdatePrice(i, p)
    \/ mounted /\ Tick
    \/ mounted /\ TimerFire

SpecLoad == Init /\ [][NextLoad]_vars

-----------------------------------------------------------------------------
(* Voice input, lines 205-238, in a browser that has the speech API.  A    *)
(* session is one SpeechRecognition object: `known` is what the duplicate  *)
(* test of addMultipleItems reads of the `items` binding its onresult      *)
(* closed over, pc is "new" before onstart and "listening" until the       *)
(* result or the error, then "over" until onend.                           *)

MaxSessions == 1

(* \w of a regular expression *)
IsWordChar(c) == c \in Letters \cup Digits \cup {"_"}

(* \b between the positions i - 1 and i of s *)
WordBoundary(s, i) ==
    (i > 1 /\ IsWordChar(s[i - 1])) # (i <= Len(s) /\ IsWordChar(s[i]))

MatchWordAt(s, i, word) ==
    /\ HasPrefixAt(s, i, word)
    /\ WordBoundary(s, i)
    /\ WordBoundary(s, i + Len(word))

(* a replace without the \b: every occurrence of word becomes a comma *)
RECURSIVE ReplaceAnywhere(_, _, _)
ReplaceAnywhere(s, word, i) ==
    IF i > Len(s) THEN <<>>
    ELSE IF HasPrefixAt(s, i, word)
         THEN <<",">> \o ReplaceAnywhere(s, word, i + Len(word))
         ELSE <<s[i]>> \o ReplaceAnywhere(s, word, i + 1)

(* s.replace(/\bword\b/g, ','), scanning from position i *)
RECURSIVE ReplaceWord(_, _, _)
ReplaceWord(s, word, i) ==
    IF i > Len(s) THEN <<>>
    ELSE IF MatchWordAt(s, i, word)
         THEN <<",">> \o ReplaceWord(s, word, i + Len(word))
         ELSE <<s[i]>> \o ReplaceWord(s, word, i + 1)

(* itemList, lines 226-232 *)
ItemList(transcript) ==
    LET lower    == ToLowerCase(transcript)
        noAnd    == ReplaceWord(lower, <<"a", "n", "d">>, 1)
        noComma  == ReplaceWord(noAnd, <<"c", "o", "m", "m", "a">>, 1)
        trimmed  == TrimAll(Split(noComma, ","))
    IN  SelectSeq(trimmed, LAMBDA part : part # <<>>)

(* event.results[0][0].transcript *)
Transcripts ==
    {
      (* "milk and eggs, bread" *) <<"m", "i", "l", "k", " ", "a", "n", "d", " ", "e", "g", "g", "s", ",", " ", "b", "r", "e", "a", "d">>,
      (* "A and b"              *) <<"A", " ", "a", "n", "d", " ", "b">>,
      (* "sand"                 *) <<"s", "a", "n", "d">>,
      (* "a comma B"            *) <<"a", " ", "c", "o", "m", "m", "a", " ", "B">>,
      (* "AND"                  *) <<"A", "N", "D">>,
      (* "a-and-b"              *) <<"a", "-", "a", "n", "d", "-", "b">>,
      (* "command, a"           *) <<"c", "o", "m", "m", "a", "n", "d", ",", " ", "a">>,
      (* "a and and b"          *) <<"a", " ", "a", "n", "d", " ", "a", "n", "d", " ", "b">>,
      (* ""                     *) <<>>
    }

MsgVoiceError == <<"Voice recognition error">>

(* a click on the microphone button, which is never disabled *)
StartVoiceInput ==
    /\ Len(voiceSessions) < MaxSessions
    /\ voiceSessions' = Append(voiceSessions, [known |-> ClosureOf(items), pc |-> "new"])
    /\ UNCHANGED isListening
    /\ UNCHANGED <<listVars, toastVars, importVars, shareVars, mounted>>

(* onstart *)
VoiceStart(k) ==
    /\ k \in 1..Len(voiceSessions)
    /\ voiceSessions[k].pc = "new"
    /\ voiceSessions' = [voiceSessions EXCEPT ![k].pc = "listening"]
    /\ isListening' = TRUE
    /\ UNCHANGED <<listVars, toastVars, importVars, shareVars, mounted>>

(* onresult *)
VoiceResult(k, transcript) ==
    /\ k \in 1..Len(voiceSessions)
    /\ voiceSessions[k].pc = "listening"
    /\ voiceSessions' = [voiceSessions EXCEPT ![k].pc = "over"]
    /\ AddMultipleItems(voiceSessions[k].known, ItemList(transcript))
    /\ UNCHANGED isListening
    /\ UNCHANGED <<inputValue, budget, importVars, shareVars, mounted>>

(* onerror *)
VoiceError(k) ==
    /\ k \in 1..Len(voiceSessions)
    /\ voiceSessions[k].pc \in {"new", "listening"}
    /\ voiceSessions' = [voiceSessions EXCEPT ![k].pc = "over"]
    /\ isListening' = FALSE
    /\ ShowNotification(MsgVoiceError)
    /\ UNCHANGED <<listVars, importVars, shareVars, mounted>>

(* onend: the session is over and its object is dropped *)
VoiceEnd(k) ==
    /\ k \in 1..Len(voiceSessions)
    /\ voiceSessions[k].pc \in {"listening", "over"}
    /\ voiceSessions' = [i \in 1..(Len(voiceSessions) - 1) |->
                            IF i < k THEN voiceSessions[i] ELSE voiceSessions[i + 1]]
    /\ isListening' = FALSE
    /\ UNCHANGED <<listVars, toastVars, importVars, shareVars, mounted>>

(* the voice input on its own, no time passing: what is heard, and the    *)
(* list cleared in between                                                 *)
NextVoice ==
    \/ StartVoiceInput
    \/ \E k \in 1..MaxSessions : VoiceStart(k)
    \/ \E k \in 1..MaxSessions : \E transcript \in Transcripts : VoiceResult(k, transcript)
    \/ \E k \in 1..MaxSessions : VoiceError(k)
    \/ \E k \in 1..MaxSessions : VoiceEnd(k)
    \/ ClearAll

SpecVoice == Init /\ [][NextVoice]_vars

-----------------------------------------------------------------------------
(* The toast over time: notifications are shown (by Clear List), seconds   *)
(* pass, and the browser runs every timeout callback that is due           *)

NextToast ==
    \/ \E v \in {<<"a">>, <<"b">>} : SetInputValue(v)
    \/ AddItem
    \/ ClearAll
    \/ Tick
    \/ TimerFire

SpecToast ==
    /\ Init
    /\ [][NextToast]_vars
    /\ WF_vars(Tick)
    /\ WF_vars(TimerFire)

-----------------------------------------------------------------------------
(* Vocabulary of the properties, stated without the operators of the model *)

CasePairs == { {"a", "A"}, {"b", "B"}, {"e", "E"} }

(* x and y are equal when compared case-insensitively *)
SameFold(x, y) ==
    /\ Len(x) = Len(y)
    /\ \A k \in 1..Len(x) : x[k] = y[k] \/ {x[k], y[k]} \in CasePairs

(* t is s without its leading and trailing white space *)
IsTrimOf(t, s) ==
    \E i \in 1..(Len(s) + 1) : \E j \in 0..Len(s) :
        /\ t = SubSeq(s, i, j)
        /\ \A k \in 1..(i - 1) : s[k] = " "
        /\ \A k \in (j + 1)..Len(s) : s[k] = " "
        /\ t = <<>> \/ (t[1] # " " /\ t[Len(t)] # " ")

Cores(s) ==
    { t \in { SubSeq(s, i, j) : i \in 1..(Len(s) + 1), j \in 0..Len(s) } : IsTrimOf(t, s) }

(* the amount, in hundredths, each price and budget text of the model stands for *)
PriceMeaning(p) ==
    CASE p = <<>> -> 0
      [] p = <<"x">> -> 0
      [] p = <<"2", ".", "5">> -> 250
      [] p = <<"-", "1">> -> 0 - 100

BudgetMeaning(b) ==
    CASE b = <<>> -> 0
      [] b = <<"0">> -> 0
      [] b = <<"2">> -> 200
      [] b = <<"4">> -> 400

RECURSIVE SumOver(_, _)
SumOver(its, S) ==
    IF S = {} THEN 0
    ELSE LET i == CHOOSE x \in S : TRUE
         IN  PriceMeaning(its[i].estimatedPrice) + SumOver(its, S \ {i})

ToBuy(its) == { i \in 1..Len(its) : ~its[i].inPantry }

-----------------------------------------------------------------------------
(* C2: addItem is a no-op when the trimmed input is empty or equals,       *)
(* ignoring case, the name of an item of the list: the list is unchanged   *)
(* and no notification is shown.                                           *)
C2_AddItemNoOp ==
    [][ \A t \in Cores(inputValue) :
          ( /\ AddItem
            /\ t = <<>> \/ \E i \in 1..Len(items) : SameFold(items[i].name, t) )
          => ( /\ items' = items
               /\ showToast' = showToast
               /\ toastMessage' = toastMessage
               /\ timers' = timers ) ]_vars

(* the input holds " A " while the list holds "a": addItem is enabled here *)
(* and leaves this very state                                              *)
C2_Witness ==
    /\ inputValue = <<" ", "A", " ">>
    /\ \E i \in 1..Len(items) : items[i].name = <<"a">>

(* C3: addItem with a trimmed name that is non-empty and matches no item   *)
(* appends exactly one item at the end: its name is the trimmed input, it  *)
(* is not in the pantry and has an empty price; the items that were        *)
(* present keep their position and fields.                                 *)
C3_AddItemAppends ==
    [][ \A t \in Cores(inputValue) :
          ( /\ AddItem
            /\ t # <<>>
            /\ ~ \E i \in 1..Len(items) : SameFold(items[i].name, t) )
          => ( /\ Len(items') = Len(items) + 1
               /\ \A i \in 1..Len(items) : items'[i] = items[i]
               /\ items'[Len(items')].name = t
               /\ items'[Len(items')].inPantry = FALSE
               /\ items'[Len(items')].estimatedPrice = <<>> ) ]_vars

(* "A" can only have come from the input " A ", added behind "b" *)
C3_Witness ==
    /\ Len(items) = 2
    /\ items[1].name = <<"b">>
    /\ items[2] = [name |-> <<"A">>, inPantry |-> FALSE, estimatedPrice |-> <<>>]
    /\ inputValue = <<>>

(* C4: togglePantry on an item that is not in the pantry takes it out of   *)
(* shoppingItems and estimatedTotal but not out of the list: length,       *)
(* order, names and prices stay, only the flag at that index changes, and  *)
(* a second toggle of the same index restores the list.                    *)
C4_TogglePantryFrame ==
    [][ \A i \in 1..MaxItems :
          ( TogglePantry(i) /\ ~items[i].inPantry )
          => ( /\ Len(items') = Len(items)
               /\ \A j \in 1..Len(items) :
                    /\ items'[j].name = items[j].name
                    /\ items'[j].estimatedPrice = items[j].estimatedPrice
                    /\ j # i => items'[j].inPantry = items[j].inPantry
               /\ items'[i].inPantry = TRUE
               /\ ShoppingItems(items') =
                    RemoveAt(ShoppingItems(items),
                             Cardinality({ j \in 1..i : ~items[j].inPantry }))
               /\ EstimatedTotal(items') =
                    EstimatedTotal(items) - PriceMeaning(items[i].estimatedPrice)
               /\ TogglePantryAt(items', i) = items ) ]_vars

(* a priced item is in the pantry beside one that is not *)
C4_Witness ==
    /\ Len(items) = 2
    /\ items[1].inPantry /\ items[1].estimatedPrice = <<"2", ".", "5">>
    /\ ~items[2].inPantry

(* C5: estimatedTotal is the sum, over the items not in the pantry only,   *)
(* of the parsed prices, an empty or unparsable price counting 0.          *)
C5_EstimatedTotal ==
    EstimatedTotal(items) = SumOver(items, ToBuy(items))

(* a priced item in the pantry, and an unparsable price outside it *)
C5_Witness ==
    \E i, j \in 1..Len(items) :
        /\ items[i].inPantry /\ items[i].estimatedPrice = <<"2", ".", "5">>
        /\ ~items[j].inPantry /\ items[j].estimatedPrice = <<"x">>

(* C6: with a budget that is empty or parses to 0, isOverBudget is false   *)
(* and budgetProgress is 0 whatever the total; with a budget above 0 that  *)
(* the total exceeds, isOverBudget is true and budgetProgress is 100.      *)
C6_BudgetDerived ==
    LET m == BudgetMeaning(budget)
        total == SumOver(items, ToBuy(items))
        p == BudgetProgress(items, budget)
    IN  /\ m = 0 => ( ~IsOverBudget(items, budget) /\ p.n = 0 )
        /\ (m > 0 /\ total > m) => ( IsOverBudget(items, budget) /\ p.n = 100 * p.d )

(* budget 2 and a total of 5 *)
C6_Witness ==
    /\ budget = <<"2">>
    /\ SumOver(items, ToBuy(items)) = 500

(* C10: a notification stays visible for the full 3 seconds after it was   *)
(* shown unless a later notification replaced it: while the timeout of the *)
(* notification shown last has not run out, the toast is visible.          *)
C10_VisibleForThreeSeconds ==
    (timers # <<>> /\ timers[Len(timers)] > 0) => showToast

(* C1: in every state reached from the empty list by addItem, batch adds,  *)
(* removeItem, togglePantry, updatePrice and clearAll, no two items have   *)
(* names that are equal when compared case-insensitively.                  *)
C1_UniqueNames ==
    \A i, j \in 1..Len(items) :
        i # j => ~SameFold(items[i].name, items[j].name)

(* the reply texts without a bracketed array, or whose bracketed part is   *)
(* not a list of strings                                                   *)
FailureTexts ==
    { <<>>,
      <<"n", "o">>,
      <<"]", "[">>,
      <<"[", "1", "]">>,
      <<"[", "a", "]">> }

(* C8: when a recipe import fails (the network call rejects, the reply has *)
(* no bracketed array, or the bracketed text is not a list of strings)     *)
(* the list is left as it was and the failure notification is shown.       *)
C8_ImportFailure ==
    [][ ( \/ FetchReject
          \/ JsonReject
          \/ \E text \in FailureTexts : JsonResolve(text) )
        => ( /\ items' = items
             /\ showToast' = TRUE
             /\ toastMessage' = MsgFailed ) ]_vars

(* C9: the importing flag follows idle -> importing -> idle: it is set     *)
(* exactly while a request is pending, every way an import ends leaves the *)
(* flag false and the URL input empty, and once the network call resolves  *)
(* or rejects every import that set the flag gets there.                   *)
C9_ImportFlagCleared ==
    /\ [](isImporting <=> importPc # "idle")
    /\ [][ ( \/ ImportRecipe /\ apiKey = <<>> /\ (\E k \in 1..Len(recipeUrl) : recipeUrl[k] # " ")
             \/ FetchReject
             \/ JsonReject
             \/ \E text \in ResponseTexts : JsonResolve(text) )
           => ( isImporting' = FALSE /\ recipeUrl' = <<>> ) ]_vars
    /\ isImporting ~> (~isImporting /\ recipeUrl = <<>>)

(* an import has added an item and is over *)
C9_Witness ==
    /\ toastMessage = MsgAdded(1)
    /\ showToast
    /\ Len(items) = 1
    /\ ~isImporting
    /\ importPc = "idle"
    /\ recipeUrl = <<>>

(* C7: share round trip: for every list and every budget string, the URL   *)
(* shareList produces, decoded by the restore on load, gives the same      *)
(* items (names, flags, prices, order) and the same budget string: the     *)
(* page opened at the copied link holds what the sharing page held.        *)
C7_ShareRoundTrip ==
    [][ OpenSharedLink => (items' = items /\ budget' = budget) ]_vars

(* the payloads that are not a percent-encoded JSON array of items *)
MalformedUrls ==
    { PageBase \o <<"?", "i", "t", "e", "m", "s", "=">> \o payload
               \o <<"&", "b", "u", "d", "g", "e", "t", "=", "2">> :
        payload \in { <<"%">>,
                      <<"x">>,
                      <<"5">>,
                      <<"n", "u", "l", "l">>,
                      <<"%", "7", "B", "%", "7", "D">>,
                      <<"%", "5", "B", "n", "u", "l", "l", "%", "5", "D">> } }

(* C11: a page opened with a malformed share payload in the items          *)
(* parameter (a bad percent escape, text that is not JSON, JSON that is    *)
(* not an array of items) ignores it: the App stays rendered, the list is  *)
(* the default empty list with a total of 0, and addItem can act on it.    *)
C11_MalformedPayloadIgnored ==
    [][ \A url \in MalformedUrls :
          OpenUrl(url) => ( /\ mounted'
                            /\ items' = <<>>
                            /\ EstimatedTotal(items') = 0 ) ]_vars

(* s holds a character that is not white space *)
NonBlank(s) == \E k \in 1..Len(s) : s[k] # " "

(* what the claim says of the state an import without credential leaves *)
NoKeyOutcome ==
    /\ importPc' = "idle"
    /\ ~isImporting'
    /\ showToast'
    /\ toastMessage' = MsgNoKey
    /\ items' = items

(* C12, as stated: without an API credential, the import invoked with a    *)
(* non-empty URL makes no network call, shows the notification about the   *)
(* missing configuration and leaves the list unchanged.                    *)
C12_NoKeyNonEmptyUrl ==
    ( apiKey = <<>> /\ ~isImporting /\ recipeUrl # <<>> /\ Len(timers) < MaxTimers )
    => ENABLED (ImportRecipe /\ NoKeyOutcome)

(* C12, amended: the same for a URL that holds more than white space; an   *)
(* all-blank URL makes the import return at once, without notification.    *)
C12_NoKeyNotifies ==
    /\ ( apiKey = <<>> /\ ~isImporting /\ NonBlank(recipeUrl) /\ Len(timers) < MaxTimers )
       => ( /\ ENABLED (ImportRecipe /\ NoKeyOutcome)
            /\ ~ ENABLED (ImportRecipe /\ ~NoKeyOutcome) )
    /\ ( ~isImporting /\ ~NonBlank(recipeUrl) )
       => ~ ENABLED (ImportRecipe /\ (showToast' # showToast \/ timers' # timers
                                        \/ importPc' # importPc \/ items' # items))

(* the notification of the missing credential is up beside a list that     *)
(* was built by hand, and no request is pending                            *)
C12_Witness ==
    /\ apiKey = <<>>
    /\ showToast
    /\ toastMessage = MsgNoKey
    /\ Len(items) = 2
    /\ importPc = "idle"
    /\ ~isImporting
    /\ recipeUrl = <<>>

(* the lower-case letter of each capital the transcripts of the model hold *)
SpokenFold == { <<"A", "a">>, <<"B", "b">>, <<"N", "n">>, <<"D", "d">> }

Spoken(t) ==
    [k \in 1..Len(t) |->
        IF \E pr \in SpokenFold : pr[1] = t[k]
        THEN (CHOOSE pr \in SpokenFold : pr[1] = t[k])[2]
        ELSE t[k]]

(* in the transcripts of the model a word ends at a blank, a comma or a hyphen *)
EndsWord(c) == c \in {" ", ",", "-"}

(* w stands at the positions i .. i + Len(w) - 1 of t as a whole word *)
WholeWordAt(t, i, w) ==
    /\ i + Len(w) - 1 <= Len(t)
    /\ \A k \in 1..Len(w) : t[i + k - 1] = w[k]
    /\ i = 1 \/ EndsWord(t[i - 1])
    /\ i + Len(w) - 1 = Len(t) \/ EndsWord(t[i + Len(w)])

SeparatorWords == { <<"a", "n", "d">>, <<"c", "o", "m", "m", "a">> }

(* the positions of t taken by a comma or by a whole word "and" or "comma" *)
Separators(t) ==
    { k \in 1..Len(t) :
        \/ t[k] = ","
        \/ \E w \in SeparatorWords : \E i \in 1..k :
               k <= i + Len(w) - 1 /\ WholeWordAt(t, i, w) }

(* the stretches of t between separators that hold more than blanks *)
Stretches(t) ==
    { ij \in (1..Len(t)) \X (1..Len(t)) :
        /\ ij[1] <= ij[2]
        /\ \A k \in ij[1]..ij[2] : k \notin Separators(t)
        /\ ij[1] = 1 \/ (ij[1] - 1) \in Separators(t)
        /\ ij[2] = Len(t) \/ (ij[2] + 1) \in Separators(t)
        /\ \E k \in ij[1]..ij[2] : t[k] # " " }

(* the names spoken in t, in spoken order *)
SpokenNames(t) ==
    LET low == Spoken(t)
        F == Stretches(low)
    IN  [n \in 1..Cardinality(F) |->
            LET ij == CHOOSE x \in F : Cardinality({ y \in F : y[1] < x[1] }) = n - 1
            IN  CHOOSE core \in Cores(SubSeq(low, ij[1], ij[2])) : TRUE]

(* C13: a voice transcript is lower-cased and split at every comma, every  *)
(* whole word "and" and every whole word "comma"; the trimmed non-empty    *)
(* fragments, in spoken order, are the candidates of the batch add: heard  *)
(* by a session that knows no item, they are the names appended.           *)
C13_VoiceCandidates ==
    [][ \A k \in 1..MaxSessions : \A transcript \in Transcripts :
          ( VoiceResult(k, transcript) /\ voiceSessions[k].known = {} )
          => LET spoken == SpokenNames(transcript) IN
             /\ Len(items') = Len(items) + Len(spoken)
             /\ \A n \in 1..Len(items) : items'[n] = items[n]
             /\ \A n \in 1..Len(spoken) : items'[Len(items) + n].name = spoken[n] ]_vars

(* "milk and eggs, bread" was heard on an empty list *)
C13_Witness ==
    /\ Len(items) = 3
    /\ items[1].name = <<"m", "i", "l", "k">>
    /\ items[2].name = <<"e", "g", "g", "s">>
    /\ items[3].name = <<"b", "r", "e", "a", "d">>
    /\ toastMessage = MsgAdded(3)

(* the candidate names, trimmed, each reply text of the model carries when *)
(* its bracketed part is a list of strings                                 *)
ReplyNames(text) ==
    CASE text = <<"[", "]">> -> <<>>
      [] text = <<"[", Q, "a", Q, "]">> -> << <<"a">> >>
      [] text = <<"[", Q, "a", Q, ",", Q, "A", Q, "]">> -> << <<"a">>, <<"A">> >>
      [] text = <<"o", "k", " ", "[", Q, " ", "b", Q, "]">> -> << <<"b">> >>

ListReplies ==
    { <<"[", "]">>,
      <<"[", Q, "a", Q, "]">>,
      <<"[", Q, "a", Q, ",", Q, "A", Q, "]">>,
      <<"o", "k", " ", "[", Q, " ", "b", Q, "]">> }

(* the candidates that match, ignoring case, no item of the list its *)
FreshNames(its, names) ==
    SelectSeq(names, LAMBDA nm : ~ \E i \in 1..Len(its) : SameFold(its[i].name, nm))

(* C14: a batch add reached from a recipe-import response filters its      *)
(* candidates against the list as it is when the batch is applied, also    *)
(* when items were added, removed or cleared while the request was in      *)
(* flight: the survivors are appended behind the existing items in input   *)
(* order, and when none survives the list and the notification are         *)
(* unchanged.                                                              *)
C14_BatchAgainstCurrentList ==
    [][ \A text \in ListReplies :
          JsonResolve(text)
          => LET fresh == FreshNames(items, ReplyNames(text)) IN
             /\ Len(items') = Len(items) + Len(fresh)
             /\ \A n \in 1..Len(items) : items'[n] = items[n]
             /\ \A n \in 1..Len(fresh) : items'[Len(items) + n].name = fresh[n]
             /\ fresh = <<>> => ( /\ showToast' = showToast
                                  /\ toastMessage' = toastMessage
                                  /\ timers' = timers ) ]_vars

(* C15: removeItem with an index of the current list deletes exactly the   *)
(* item at that position and keeps all other items with their fields and   *)
(* relative order; with an index outside the list it raises no error (the  *)
(* handler runs to its end) and leaves the list unchanged.                 *)
C15_RemoveItemFrame ==
    /\ [](\A i \in 1..MaxItems : ENABLED RemoveItem(i))
    /\ [][ \A i \in 1..MaxItems :
             RemoveItem(i)
             => IF i <= Len(items)
                THEN /\ Len(items') = Len(items) - 1
                     /\ \A j \in 1..(i - 1) : items'[j] = items[j]
                     /\ \A j \in i..(Len(items) - 1) : items'[j] = items[j + 1]
                ELSE items' = items ]_vars

(* what is left of a list of two when the first was removed: the item      *)
(* that was second, with its flag and its price                            *)
C15_Witness ==
    /\ Len(items) = 1
    /\ items[1] = [name |-> <<"b">>, inPantry |-> TRUE, estimatedPrice |-> <<"-", "1">>]
    /\ inputValue = <<>>

(* C16: in every reachable state, whatever prices updatePrice stored and   *)
(* whatever the budget string, budgetProgress is between 0 and 100.        *)
C16_ProgressInRange ==
    LET p == BudgetProgress(items, budget)
    IN  0 <= p.n /\ p.n <= 100 * p.d

(* C17: at most one recipe import is in flight: while the importing flag   *)
(* is set the import control is disabled, the flag is set as long as a     *)
(* request is pending, and a request is sent only from a state where none  *)
(* is pending and the flag is clear.                                       *)
C17_OneImportInFlight ==
    /\ [](isImporting => ~ ENABLED ImportRecipe)
    /\ [](importPc # "idle" => isImporting)
    /\ [][ (importPc' = "fetch" /\ importPc # "fetch")
           => (importPc = "idle" /\ ~isImporting) ]_vars

(* a reply is awaited while the URL input holds a URL again *)
C17_Witness ==
    /\ importPc = "json"
    /\ isImporting
    /\ recipeUrl = <<"u">>

(* a step that shows a notification: one more timeout is pending *)
NotificationShown == Len(timers') > Len(timers)

(* C18: every notification is dismissed: a visible toast has a hide        *)
(* pending that is due within 3 seconds, a hidden toast stays hidden       *)
(* until a notification is shown, and once no further notification is      *)
(* shown the toast gets hidden for good.                                   *)
C18_EventuallyDismissed ==
    /\ [](showToast => ( /\ timers # <<>>
                         /\ \A i \in 1..Len(timers) : timers[i] \in 0..ToastTicks ))
    /\ [][ (~showToast /\ showToast') => NotificationShown ]_vars
    /\ ( <>[][~NotificationShown]_vars => <>[](~showToast /\ timers = <<>>) )

(* two notifications were shown and the toast was dismissed since *)
C18_Witness ==
    /\ ~showToast
    /\ timers = <<>>
    /\ toastMessage = MsgCleared
    /\ Len(items) = 1

=============================================================================
